---- MODULE Spec2Model ----
(***************************************************************************)
(* Timer / status state machine of the JEE time tracker (src/App.tsx),     *)
(* together with the buttons the question overlay offers                   *)
(* (components/ControlOverlay.tsx) and the setup form's validation         *)
(* (components/SetupScreen.tsx).                                           *)
(*                                                                         *)
(* Times are milliseconds.  `now` is the wall clock read by Date.now(),     *)
(* counted from the start of the current session: the program only ever    *)
(* uses differences of Date.now() values, and lastTickRef is overwritten   *)
(* when a session starts.                                                  *)
(* A click handler, the re-render it causes and the timer effect of that   *)
(* render run to completion before the next timer callback (React flushes  *)
(* discrete events synchronously), so each handler is one action that      *)
(* includes the effect run.                                                *)
(***************************************************************************)
EXTENDS Integers, Sequences, FiniteSets, TLC

\* ---------------------------------------------------------------- bounds
MaxCount == 2          \* largest question count of a tracked session
MaxSteps == 2          \* wall-clock horizon of a session, in timer periods
MaxStartCount == 6     \* largest question count in the session-start model

\* ------------------------------------------------------ program constants
DEFAULT_IDEAL_TENTHS == 24   \* DEFAULT_CONFIG.idealTimePerQuestionMin = 2.4
DEFAULT_COUNT_INPUT == <<"2", "0">>   \* useState<string>('20')
MAX_QUESTIONS == 200         \* handleSubmit: num <= 200
COUNT_MIN == 1               \* the count field's min="1"
COUNT_MAX == 200             \* the count field's max="200"
MANTISSA_BITS == 53          \* IEEE-754 binary64 significand (JS number)
TICK_PERIOD_MS == 100        \* window.setInterval(..., 100)
MaxNow == MaxSteps * TICK_PERIOD_MS

NULL == 0                    \* activeQuestionId === null (ids start at 1)

NOT_STARTED == "NOT_STARTED"
ACTIVE == "ACTIVE"
PAUSED == "PAUSED"
SKIPPED == "SKIPPED"
COMPLETED == "COMPLETED"
QuestionStatus == {NOT_STARTED, ACTIVE, PAUSED, SKIPPED, COMPLETED}

SETUP == "SETUP"
TRACKER == "TRACKER"
ANALYTICS == "ANALYTICS"
AppView == {SETUP, TRACKER, ANALYTICS}

\* Wall-clock amounts that may pass between two events; a callback that is
\* late measures several of them at once.
WallSteps == {TICK_PERIOD_MS}
\* idealTimePerQuestionMin values entered in the setup form, in tenths of a
\* minute (the input has step="0.1"): 2.0 and the default 2.4.
IdealInputs == {20, DEFAULT_IDEAL_TENTHS}
\* ... and the value left in the form in the sessions that are tracked
TrackedIdealInputs == {DEFAULT_IDEAL_TENTHS}
\* ... and an ideal time of 0 minutes (the input has no lower limit), which
\* gives a session whose budget is used up from the start
OvertimeIdealInputs == {0}
\* Texts the count field (type="number") can hold, as character sequences:
\* empty, 0, -1, 1, 2, 2.0, 3.7, 20, 200, 201 and 1e3.
CountInputs ==
  { <<>>, <<"0">>, <<"-", "1">>, <<"1">>, <<"2">>, <<"2", ".", "0">>,
    <<"3", ".", "7">>, <<"2", "0">>, <<"2", "0", "0">>, <<"2", "0", "1">>,
    <<"1", "e", "3">> }

VARIABLES
  view,                  \* AppView
  questions,             \* Question[]
  activeQuestionId,      \* number | null
  config,                \* AppConfig (the part the timer core reads)
  totalAllocatedTimeMs,
  remainingTimeMs,
  isGlobalPaused,
  timerIntervalRef,      \* TRUE iff timerIntervalRef.current holds an interval id
  liveIntervals,         \* intervals set with setInterval and not yet cleared
  capturedActiveId,      \* activeQuestionId closed over by the interval callback
  lastTickRef,
  countInput,            \* SetupScreen's count state: the text in the count field
  now,                   \* Date.now(), relative to the session's start
  \* ---- observers (history of the run, not program state)
  observed,              \* which of the costly observers below record
  op,                    \* the operation that produced this state
  pausedMs,              \* wall time spent globally paused in this session
  everSkipped,           \* ids that have had status SKIPPED in this session
  everActive,            \* ids that have had status ACTIVE in this session
  priorDirty,            \* an earlier session ended with used records and budget
  act,                   \* observer of the latest activation and what it accrued
  uncreditedTick,        \* some tick of this session credited no record
  period,                \* observer of the current running period of the clock
  scen7,                 \* observer of the start/tick/complete scenario
  scen8                  \* observer of the accrue/leave/resume/complete scenario

vars == <<view, questions, activeQuestionId, config, totalAllocatedTimeMs,
          remainingTimeMs, isGlobalPaused, timerIntervalRef, liveIntervals,
          capturedActiveId, lastTickRef, countInput, now, observed, op,
          pausedMs, everSkipped, everActive, priorDirty, act, uncreditedTick,
          period, scen7, scen8>>

progVars == <<view, questions, activeQuestionId, config, totalAllocatedTimeMs,
              remainingTimeMs, isGlobalPaused, timerIntervalRef,
              liveIntervals, capturedActiveId, lastTickRef, countInput>>

Ids == 1..Len(questions)

\* ------------------------------------------------- JS number arithmetic
\* A positive binary64 value is [m, e] = (m as an unsigned integer) * 2^e,
\* with m a little-endian bit sequence of at most MANTISSA_BITS bits.

RECURSIVE NatToBits(_)
NatToBits(n) == IF n = 0 THEN <<>> ELSE <<n % 2>> \o NatToBits(n \div 2)

RECURSIVE BitsToNat(_)
BitsToNat(b) == IF b = <<>> THEN 0 ELSE Head(b) + 2 * BitsToNat(Tail(b))

ShiftLeft(b, k) == [i \in 1..k |-> 0] \o b

\* drop the zero bits above the most significant one
Trim(b) ==
  LET ones == {i \in 1..Len(b) : b[i] = 1}
  IN  IF ones = {} THEN <<>>
      ELSE SubSeq(b, 1, CHOOSE i \in ones : \A j \in ones : j <= i)

\* Long arithmetic is carried out on limbs of LimbBits bits, least
\* significant first, so that no intermediate exceeds 32 bits.
LimbBits == 7 * 2
LimbBase == 2 ^ LimbBits

BitsToLimbs(b) ==
  [j \in 1..((Len(b) + LimbBits - 1) \div LimbBits) |->
     BitsToNat(SubSeq(b, LimbBits * (j - 1) + 1,
                      IF LimbBits * j < Len(b) THEN LimbBits * j ELSE Len(b)))]

LimbsToBits(l) ==
  Trim([i \in 1..(LimbBits * Len(l)) |->
          (l[((i - 1) \div LimbBits) + 1] \div (2 ^ ((i - 1) % LimbBits))) % 2])

RECURSIVE MulLimbs(_, _, _)
MulLimbs(l, k, carry) ==
  IF l = <<>> THEN (IF carry = 0 THEN <<>> ELSE <<carry>>)
  ELSE LET t == Head(l) * k + carry
       IN  <<t % LimbBase>> \o MulLimbs(Tail(l), k, t \div LimbBase)

RECURSIVE DivRemLimbs(_, _)
DivRemLimbs(l, d) ==
  IF l = <<>> THEN [q |-> <<>>, r |-> 0]
  ELSE LET hi == DivRemLimbs(Tail(l), d)
           t  == hi.r * LimbBase + Head(l)
       IN  [q |-> <<t \div d>> \o hi.q, r |-> t % d]

\* b + 1, b * k and b divided by d, on bit sequences
Inc(b) == LimbsToBits(MulLimbs(BitsToLimbs(b), 1, 1))
MulBits(b, k) == LimbsToBits(MulLimbs(BitsToLimbs(b), k, 0))
DivRem(b, d) ==
  LET r == DivRemLimbs(BitsToLimbs(b), d)
  IN  [q |-> LimbsToBits(r.q), r |-> r.r]

\* round-to-nearest, ties-to-even, to MANTISSA_BITS significant bits
RoundNearestEven(b, sticky) ==
  IF Len(b) <= MANTISSA_BITS THEN [m |-> b, e |-> 0]
  ELSE LET drop == Len(b) - MANTISSA_BITS
           kept == SubSeq(b, drop + 1, Len(b))
           st   == sticky \/ \E i \in 1..(drop - 1) : b[i] = 1
           up   == b[drop] = 1 /\ (st \/ kept[1] = 1)
           m1   == IF up THEN Inc(kept) ELSE kept
       IN  IF Len(m1) > MANTISSA_BITS
           THEN [m |-> Tail(m1), e |-> drop + 1]
           ELSE [m |-> m1, e |-> drop]

\* parseFloat of a decimal with one fractional digit, given in tenths
ParseFloatTenths(t) ==
  LET d == DivRem(ShiftLeft(NatToBits(t), 60), 10)
      r == RoundNearestEven(d.q, d.r # 0)
  IN  [m |-> r.m, e |-> r.e - 60]

\* x * k for a small integer k (exactly representable), rounded once
MulNumber(x, k) ==
  LET r == RoundNearestEven(MulBits(x.m, k), FALSE)
  IN  [m |-> r.m, e |-> x.e + r.e]

MathFloor(x) ==
  IF x.e >= 0 THEN BitsToNat(ShiftLeft(x.m, x.e))
  ELSE IF -x.e >= Len(x.m) THEN 0
  ELSE BitsToNat(SubSeq(x.m, 1 - x.e, Len(x.m)))

\* Math.floor(count * idealTimePerQuestionMin * 60 * 1000), left to right
AllocatedMs(count, idealTenths) ==
  MathFloor(MulNumber(MulNumber(MulNumber(ParseFloatTenths(idealTenths),
                                          count), 60), 1000))

\* ------------------------------------------------------------ the program

\* handleStartSession: Array.from({length: count}, ...)
NewQuestions(count) ==
  [i \in 1..count |->
     [id |-> i, status |-> NOT_STARTED, timeSpentMs |-> 0, wasSkipped |-> FALSE]]

\* SetupScreen.handleSubmit: if (num > 0 && num <= 200)
ValidCount(num) == num > 0 /\ num <= MAX_QUESTIONS

\* ------------------------------------------------------- the count field
Digits == {"0", "1", "2", "3", "4", "5", "6", "7", "8", "9"}

DigitValue(c) ==
  CASE c = "0" -> 0 [] c = "1" -> 1 [] c = "2" -> 2 [] c = "3" -> 3
    [] c = "4" -> 4 [] c = "5" -> 5 [] c = "6" -> 6 [] c = "7" -> 7
    [] c = "8" -> 8 [] c = "9" -> 9

\* length of the longest prefix of t made of digits
RECURSIVE RunLen(_)
RunLen(t) ==
  IF t = <<>> \/ Head(t) \notin Digits THEN 0 ELSE 1 + RunLen(Tail(t))

RECURSIVE DigitsValue(_)
DigitsValue(ds) ==
  IF ds = <<>> THEN 0
  ELSE 10 * DigitsValue(SubSeq(ds, 1, Len(ds) - 1)) + DigitValue(ds[Len(ds)])

Take(t, n) == SubSeq(t, 1, n)
Drop(t, n) == SubSeq(t, n + 1, Len(t))

RECURSIVE Pow10(_)
Pow10(n) == IF n = 0 THEN 1 ELSE 10 * Pow10(n - 1)

RECURSIVE StripBlanks(_)
StripBlanks(t) ==
  IF t # <<>> /\ Head(t) = " " THEN StripBlanks(Tail(t)) ELSE t

\* parseInt(count, 10): leading blanks, a sign, then the longest run of
\* digits; NaN when there is no digit.
ParseInt(text) ==
  LET t0 == StripBlanks(text)
      neg == t0 # <<>> /\ Head(t0) = "-"
      t1 == IF t0 # <<>> /\ Head(t0) \in {"-", "+"} THEN Tail(t0) ELSE t0
      n == RunLen(t1)
  IN  IF n = 0 THEN [nan |-> TRUE, value |-> 0]
      ELSE [nan |-> FALSE,
            value |-> IF neg THEN 0 - DigitsValue(Take(t1, n))
                      ELSE DigitsValue(Take(t1, n))]

\* The number a type="number" field's text denotes (a valid floating-point
\* number: sign, digits, fraction, exponent), whether it is an integer, and
\* its integer part.
EnteredNumber(text) ==
  LET neg == text # <<>> /\ Head(text) = "-"
      t1 == IF neg THEN Tail(text) ELSE text
      n1 == RunLen(t1)
      t2 == Drop(t1, n1)
      hasDot == t2 # <<>> /\ Head(t2) = "."
      t3 == IF hasDot THEN Tail(t2) ELSE t2
      n3 == IF hasDot THEN RunLen(t3) ELSE 0
      t4 == Drop(t3, n3)
      hasExp == t4 # <<>> /\ Head(t4) \in {"e", "E"}
      t5 == IF hasExp THEN Tail(t4) ELSE t4
      expNeg == hasExp /\ t5 # <<>> /\ Head(t5) = "-"
      t6 == IF hasExp /\ t5 # <<>> /\ Head(t5) \in {"-", "+"} THEN Tail(t5) ELSE t5
      n6 == IF hasExp THEN RunLen(t6) ELSE 0
      rest == Drop(t6, n6)
      exp == IF expNeg THEN 0 - DigitsValue(Take(t6, n6))
             ELSE DigitsValue(Take(t6, n6))
      D == DigitsValue(Take(t1, n1) \o Take(t3, n3))
      scale == exp - n3
      wellFormed == /\ n1 + n3 > 0
                    /\ hasDot => n3 > 0
                    /\ hasExp => n6 > 0
                    /\ rest = <<>>
      magnitude == IF scale >= 0 THEN D * Pow10(scale) ELSE D \div Pow10(0 - scale)
  IN  IF ~wellFormed THEN [number |-> FALSE, integer |-> FALSE, value |-> 0]
      ELSE [number |-> TRUE,
            integer |-> (scale >= 0 \/ D % Pow10(0 - scale) = 0),
            value |-> IF neg THEN 0 - magnitude ELSE magnitude]

\* variant: the count field has no max attribute
FormValidNoMax(text) ==
  LET v == EnteredNumber(text)
  IN  v.number /\ v.integer /\ v.value >= COUNT_MIN

\* The form's constraint validation, which precedes onSubmit: the count
\* field is required, type="number" (step 1 from min), min="1", max="200".
FormValid(text) ==
  LET v == EnteredNumber(text)
  IN  v.number /\ v.integer /\ v.value >= COUNT_MIN /\ v.value <= COUNT_MAX

\* handleSubmit: if (num > 0 && num <= 200), false for NaN
SubmitStarts(num) == ~num.nan /\ ValidCount(num.value)

\* variant: the view is left out of the effect's condition
EffectInstallsIgnoringView(v, paused) == ~paused

\* variant: the pause flag is left out of the effect's condition
EffectInstallsIgnoringPause(v, paused) == v = TRACKER

\* The timer effect installs an interval unless
\* (view !== AppView.TRACKER || isGlobalPaused).
EffectInstalls(v, paused) == v = TRACKER /\ ~paused

\* variant: every ACTIVE record is credited, whatever activeQuestionId holds
TickQuestionsAllActive(qs, aid, delta) ==
  [i \in DOMAIN qs |->
     IF qs[i].status = ACTIVE
     THEN [qs[i] EXCEPT !.timeSpentMs = @ + delta]
     ELSE qs[i]]

\* variant: the linked record is credited whatever its status
TickQuestionsAnyStatus(qs, aid, delta) ==
  [i \in DOMAIN qs |->
     IF qs[i].id = aid
     THEN [qs[i] EXCEPT !.timeSpentMs = @ + delta]
     ELSE qs[i]]

\* The interval callback's  prev.map(q => ...)  with the measured delta.
TickQuestions(qs, aid, delta) ==
  [i \in DOMAIN qs |->
     IF qs[i].id = aid /\ qs[i].status = ACTIVE
     THEN [qs[i] EXCEPT !.timeSpentMs = @ + delta]
     ELSE qs[i]]

\* variant: the remaining budget stops at zero
TickRemainingClamped(rem, delta) == IF rem - delta < 0 THEN 0 ELSE rem - delta

\* setRemainingTimeMs(prev => prev - delta)
TickRemaining(rem, delta) == rem - delta

\* variant: a fixed increment per callback instead of the measured delta
MeasuredDeltaFixed(t, last) == TICK_PERIOD_MS

\* const delta = now - lastTickRef.current
MeasuredDelta(t, last) == t - last

\* variant: wasSkipped mirrors the new status
UpdatedQuestionFlagFromStatus(q, newStatus) ==
  [q EXCEPT !.status = newStatus, !.wasSkipped = (newStatus = SKIPPED)]

\* variant: activation restarts the record's time
UpdatedQuestionResetTime(q, newStatus) ==
  [q EXCEPT !.status = newStatus,
            !.wasSkipped = IF newStatus = SKIPPED THEN TRUE ELSE @,
            !.timeSpentMs = IF newStatus = ACTIVE THEN 0 ELSE @]

\* updateQuestionStatus: const updatedQ = { ...q, status: newStatus } ...
UpdatedQuestion(q, newStatus) ==
  [q EXCEPT !.status = newStatus,
            !.wasSkipped = IF newStatus = SKIPPED THEN TRUE ELSE @]

\* variant: activating a record pauses the records that were ACTIVE
UpdateQuestionsAutoPause(qs, id, newStatus) ==
  [i \in DOMAIN qs |->
     IF qs[i].id = id THEN UpdatedQuestion(qs[i], newStatus)
     ELSE IF newStatus = ACTIVE /\ qs[i].status = ACTIVE
     THEN [qs[i] EXCEPT !.status = PAUSED]
     ELSE qs[i]]

\* updateQuestionStatus: prev.map(q => q.id !== id ? q : updatedQ)
UpdateQuestions(qs, id, newStatus) ==
  [i \in DOMAIN qs |->
     IF qs[i].id # id THEN qs[i] ELSE UpdatedQuestion(qs[i], newStatus)]

\* variant: setActiveQuestionId is called whether or not a record matches
UpdatedActiveIdUnconditional(qs, aid, id, newStatus) ==
  IF newStatus = ACTIVE THEN id
  ELSE IF newStatus \in {SKIPPED, COMPLETED} THEN NULL
  ELSE aid

\* updateQuestionStatus: the setActiveQuestionId calls made for the matching
\* record (none when no record has this id).
UpdatedActiveId(qs, aid, id, newStatus) ==
  IF \A i \in DOMAIN qs : qs[i].id # id THEN aid
  ELSE IF newStatus = ACTIVE THEN id
  ELSE IF newStatus \in {SKIPPED, COMPLETED} THEN NULL
  ELSE aid

\* variant: activation leaves lastTickRef as it was
UpdatedLastTickStale(qs, last, t, id, newStatus) == last

\* updateQuestionStatus: lastTickRef.current = Date.now() on activation
UpdatedLastTick(qs, last, t, id, newStatus) ==
  IF (\E i \in DOMAIN qs : qs[i].id = id) /\ newStatus = ACTIVE THEN t ELSE last

\* variant: a record that was never started offers Skip
OfferedSkipUnstarted(status) ==
  CASE status = NOT_STARTED -> {ACTIVE, SKIPPED}
    [] status = ACTIVE      -> {PAUSED, COMPLETED, SKIPPED}
    [] status = PAUSED      -> {ACTIVE, COMPLETED, SKIPPED}
    [] status = SKIPPED     -> {ACTIVE, COMPLETED}
    [] status = COMPLETED   -> {}

\* variant: a completed record offers Resume
OfferedReopen(status) ==
  CASE status = NOT_STARTED -> {ACTIVE}
    [] status = ACTIVE      -> {PAUSED, COMPLETED, SKIPPED}
    [] status = PAUSED      -> {ACTIVE, COMPLETED, SKIPPED}
    [] status = SKIPPED     -> {ACTIVE, COMPLETED}
    [] status = COMPLETED   -> {ACTIVE}

\* ControlOverlay.renderButtons: the status changes offered for a record
Offered(status) ==
  CASE status = NOT_STARTED -> {ACTIVE}
    [] status = ACTIVE      -> {PAUSED, COMPLETED, SKIPPED}
    [] status = PAUSED      -> {ACTIVE, COMPLETED, SKIPPED}
    [] status = SKIPPED     -> {ACTIVE, COMPLETED}
    [] status = COMPLETED   -> {}

\* GlobalTimerControls (not among the sources): the Pause button is shown
\* while the clock runs, the Resume button while it is paused.
PauseOffered == view = TRACKER /\ ~isGlobalPaused
ResumeOffered == view = TRACKER /\ isGlobalPaused

\* variant: the effect never clears an installed interval
TimerEffectKeepsInterval(v, paused, aid, last) ==
  LET depsChanged ==
        <<v, paused, aid>> # <<view, isGlobalPaused, activeQuestionId>>
      starts == depsChanged /\ EffectInstalls(v, paused) /\ ~timerIntervalRef
  IN  /\ timerIntervalRef' = (timerIntervalRef \/ starts)
      /\ liveIntervals' = liveIntervals + (IF starts THEN 1 ELSE 0)
      /\ capturedActiveId' = IF starts THEN aid ELSE capturedActiveId
      /\ lastTickRef' = IF starts THEN now ELSE last

\* The timer effect with deps [view, isGlobalPaused, activeQuestionId], run
\* after a render that produced v, paused, aid; `last` is lastTickRef as the
\* handler left it.  When a dep changed: the cleanup returned by the previous
\* run (which exists when that run took the start branch) clears the interval
\* the ref holds; then the stop branch clears what the ref still holds, or
\* the start branch installs an interval if the ref is empty.
TimerEffect(v, paused, aid, last) ==
  LET depsChanged ==
        <<v, paused, aid>> # <<view, isGlobalPaused, activeQuestionId>>
      cleaned == /\ depsChanged
                 /\ EffectInstalls(view, isGlobalPaused)
                 /\ timerIntervalRef
      ref1 == timerIntervalRef /\ ~cleaned
      stops == depsChanged /\ ~EffectInstalls(v, paused) /\ ref1
      starts == depsChanged /\ EffectInstalls(v, paused) /\ ~ref1
      live == liveIntervals - (IF cleaned THEN 1 ELSE 0)
                            - (IF stops THEN 1 ELSE 0)
                            + (IF starts THEN 1 ELSE 0)
  IN  /\ timerIntervalRef' = ((ref1 /\ ~stops) \/ starts)
      /\ liveIntervals' = live
      /\ capturedActiveId' = IF starts THEN aid
                             ELSE IF live = 0 THEN NULL ELSE capturedActiveId
      /\ lastTickRef' = IF starts THEN now ELSE last

\* ------------------------------------------- AnalyticsDashboard's counts
\* const totalQuestions = questions.length
totalQuestions(qs) == Len(qs)

greenCount(qs) ==
  Cardinality({i \in DOMAIN qs : qs[i].status = COMPLETED /\ ~qs[i].wasSkipped})

orangeCount(qs) ==
  Cardinality({i \in DOMAIN qs : qs[i].status = COMPLETED /\ qs[i].wasSkipped})

\* variant: the skipped count goes by the wasSkipped flag
blueCountByFlag(qs) == Cardinality({i \in DOMAIN qs : qs[i].wasSkipped})

blueCount(qs) == Cardinality({i \in DOMAIN qs : qs[i].status = SKIPPED})

grayCount(qs) ==
  totalQuestions(qs) - (greenCount(qs) + orangeCount(qs) + blueCount(qs))

\* ----------------------------------------------------------- observers

\* pausedMs records under "pause", priorDirty under "sessions", act under
\* "activation", uncreditedTick under "credit", period under "period", scen7
\* under "scenario" and scen8 under "resumption".  op records every operation
\* under "none", none under "scenario" and "resumption", and otherwise only
\* the operations told apart here.
OpsTold ==
  CASE observed = "pause"    -> {"tick"}
    [] observed = "overtime" -> {"tick", "status", "finish"}
    [] observed = "sessions" -> {"start"}
    [] observed = "calls"    -> {"unknown", "completed"}
    [] observed = "period"   -> {"tick"}
    [] OTHER                 -> {}
ObserveOp(name) ==
  IF observed \in {"scenario", "resumption"} THEN op
  ELSE IF observed = "none" \/ name \in OpsTold THEN name
  ELSE "other"
ObservePause(new) == IF observed = "pause" THEN new ELSE pausedMs
ObservePrior(new) == IF observed = "sessions" THEN new ELSE priorDirty
ObserveAct(new) == IF observed = "activation" THEN new ELSE act
ObserveCredit(new) == IF observed = "credit" THEN new ELSE uncreditedTick
ObservePeriod(new) == IF observed = "period" THEN new ELSE period
Observe7(new) == IF observed = "scenario" THEN new ELSE scen7
Observe8(new) == IF observed = "resumption" THEN new ELSE scen8

\* the session being left has a skipped record with time on it and has
\* used some of its budget
SessionDirty ==
  /\ remainingTimeMs < totalAllocatedTimeMs
  /\ \E i \in Ids : questions[i].wasSkipped /\ questions[i].timeSpentMs > 0

\* The latest activation, until the first tick after it: its instant, and
\* whether the clock was globally paused then ("paused") and has been
\* resumed since ("resumed", `from` then being the resume instant).  The
\* first tick leaves a "ticked" phase, which the next operation clears; the
\* observation also ends when a status change leaves activeQuestionId
\* referencing no ACTIVE record, so that no tick can credit anything.
ActNone == [phase |-> "none", from |-> 0]

ActTicked == {"ticked", "ticked after resume"}

ActStatus(a, newStatus, paused, t, linkedActive) ==
  IF newStatus = ACTIVE
  THEN [phase |-> IF paused THEN "paused" ELSE "running", from |-> t]
  ELSE IF a.phase \in ActTicked \/ ~linkedActive THEN ActNone
  ELSE a

\* any operation after the first tick
ActPause(a) == IF a.phase \in ActTicked THEN ActNone ELSE a

ActResume(a, t) ==
  IF a.phase = "paused" THEN [a EXCEPT !.phase = "resumed", !.from = t]
  ELSE ActPause(a)

ActTick(a) ==
  IF a.phase = "running" THEN [a EXCEPT !.phase = "ticked"]
  ELSE IF a.phase = "resumed" THEN [a EXCEPT !.phase = "ticked after resume"]
  ELSE ActPause(a)

\* A running period of the clock: the instant it began (session start or
\* global resume) and the sum of the deltas its ticks have measured.
PeriodNone == [from |-> 0, sum |-> 0]

Scen7Off == [phase |-> "off", id |-> NULL, T |-> 0]
Scen8Idle == [phase |-> "idle", id |-> NULL, t1 |-> 0, t2 |-> 0, via |-> "-"]

\* start/tick/complete scenario: a fresh session, one activation, ticks only,
\* then completion of the same record; anything else leaves the scenario.
Scen7Status(s, id, old, new) ==
  IF s.phase = "fresh" /\ old = NOT_STARTED /\ new = ACTIVE
  THEN [phase |-> "active", id |-> id, T |-> 0]
  ELSE IF s.phase = "active" /\ s.id = id /\ new = COMPLETED
  THEN [s EXCEPT !.phase = "done"]
  ELSE Scen7Off

Scen7Tick(s, delta) ==
  IF s.phase = "active" THEN [s EXCEPT !.T = @ + delta] ELSE Scen7Off

\* accrue/leave/resume/complete scenario of one record, from its first
\* activation: a1 -(PAUSED|SKIPPED)-> mid -(ACTIVE)-> a2 -(COMPLETED)-> done.
\* The scenario is followed on the first record, whatever happens to the
\* others (the handlers treat all records alike); a completed scenario is
\* forgotten by the next operation, and so is one that the record has left.
ObservedId == 1

Scen8Rest(s) == IF s.phase = "done" THEN Scen8Idle ELSE s

Scen8Status(s, id, old, new) ==
  IF s.phase \in {"idle", "done"}
  THEN IF id = ObservedId /\ old = NOT_STARTED /\ new = ACTIVE
       THEN [phase |-> "a1", id |-> id, t1 |-> 0, t2 |-> 0, via |-> "-"]
       ELSE Scen8Idle
  ELSE IF s.id # id THEN s
  ELSE IF s.phase = "a1" /\ new \in {PAUSED, SKIPPED}
  THEN [s EXCEPT !.phase = "mid", !.via = new]
  ELSE IF s.phase = "mid" /\ new = ACTIVE THEN [s EXCEPT !.phase = "a2"]
  ELSE IF s.phase = "a2" /\ new = COMPLETED THEN [s EXCEPT !.phase = "done"]
  ELSE Scen8Idle

\* what the tick added to the observed record, by phase
Scen8Tick(s, before, after) ==
  IF s.phase = "a1"
  THEN [s EXCEPT !.t1 = @ + after[s.id].timeSpentMs - before[s.id].timeSpentMs]
  ELSE IF s.phase = "a2"
  THEN [s EXCEPT !.t2 = @ + after[s.id].timeSpentMs - before[s.id].timeSpentMs]
  ELSE Scen8Rest(s)

\* --------------------------------------------------------------- actions

InitObserving(o) ==
  /\ observed = o
  /\ view = SETUP
  /\ questions = <<>>
  /\ activeQuestionId = NULL
  /\ config = [idealTimePerQuestionMin |-> DEFAULT_IDEAL_TENTHS]
  /\ totalAllocatedTimeMs = 0
  /\ remainingTimeMs = 0
  /\ isGlobalPaused = FALSE
  /\ timerIntervalRef = FALSE
  /\ liveIntervals = 0
  /\ capturedActiveId = NULL
  /\ lastTickRef = 0
  /\ countInput = DEFAULT_COUNT_INPUT
  /\ now = 0
  /\ op = "init"
  /\ pausedMs = 0
  /\ everSkipped = {}
  /\ everActive = {}
  /\ priorDirty = FALSE
  /\ act = ActNone
  /\ uncreditedTick = FALSE
  /\ period = PeriodNone
  /\ scen7 = Scen7Off
  /\ scen8 = Scen8Idle

Init == InitObserving("none")
InitPause == InitObserving("pause")
InitScenario == InitObserving("scenario")
InitResumption == InitObserving("resumption")
InitOvertime == InitObserving("overtime")
InitSessions == InitObserving("sessions")
InitCalls == InitObserving("calls")
InitActivation == InitObserving("activation")
InitCredit == InitObserving("credit")
InitPeriod == InitObserving("period")

\* Wall-clock time passes.
Advance(d) ==
  /\ view # SETUP
  /\ now + d <= MaxNow
  /\ now' = now + d
  /\ op' = ObserveOp("advance")
  /\ pausedMs' = ObservePause(IF isGlobalPaused THEN pausedMs + d ELSE pausedMs)
  /\ act' = ObserveAct(ActPause(act))
  /\ scen8' = Observe8(Scen8Rest(scen8))
  /\ UNCHANGED <<progVars, observed, everSkipped, everActive, priorDirty,
                 uncreditedTick, period, scen7>>

\* variant: the remaining budget is not set again when a session starts
handleStartSessionKeepingRemaining(count, idealTenths) ==
  /\ view = SETUP
  /\ ValidCount(count)
  /\ config' = [idealTimePerQuestionMin |-> idealTenths]
  /\ questions' = NewQuestions(count)
  /\ totalAllocatedTimeMs' = AllocatedMs(count, idealTenths)
  /\ remainingTimeMs' = remainingTimeMs
  /\ isGlobalPaused' = FALSE
  /\ view' = TRACKER
  /\ activeQuestionId' = activeQuestionId
  /\ now' = 0
  /\ timerIntervalRef' = EffectInstalls(TRACKER, FALSE)
  /\ liveIntervals' = IF EffectInstalls(TRACKER, FALSE) THEN 1 ELSE 0
  /\ capturedActiveId' = activeQuestionId
  /\ lastTickRef' = 0
  /\ op' = ObserveOp("start")
  /\ pausedMs' = 0
  /\ everSkipped' = {}
  /\ everActive' = {}
  /\ act' = ActNone
  /\ uncreditedTick' = FALSE
  /\ period' = PeriodNone
  /\ scen7' = Observe7([phase |-> "fresh", id |-> NULL, T |-> 0])
  /\ scen8' = Scen8Idle
  /\ UNCHANGED <<countInput, observed, priorDirty>>

\* SetupScreen.handleSubmit -> App.handleStartSession(count, newConfig)
handleStartSession(count, idealTenths) ==
  /\ view = SETUP
  /\ ValidCount(count)
  /\ config' = [idealTimePerQuestionMin |-> idealTenths]
  /\ questions' = NewQuestions(count)
  /\ totalAllocatedTimeMs' = AllocatedMs(count, idealTenths)
  /\ remainingTimeMs' = AllocatedMs(count, idealTenths)
  /\ isGlobalPaused' = FALSE
  /\ view' = TRACKER
  /\ activeQuestionId' = activeQuestionId
  /\ now' = 0
  /\ timerIntervalRef' = EffectInstalls(TRACKER, FALSE)
  /\ liveIntervals' = IF EffectInstalls(TRACKER, FALSE) THEN 1 ELSE 0
  /\ capturedActiveId' = activeQuestionId
  /\ lastTickRef' = 0
  /\ op' = ObserveOp("start")
  /\ pausedMs' = 0
  /\ everSkipped' = {}
  /\ everActive' = {}
  /\ act' = ActNone
  /\ uncreditedTick' = FALSE
  /\ period' = PeriodNone
  /\ scen7' = Observe7([phase |-> "fresh", id |-> NULL, T |-> 0])
  /\ scen8' = Scen8Idle
  /\ UNCHANGED <<countInput, observed, priorDirty>>

\* The count field's onChange: setCount(e.target.value)
setCount(text) ==
  /\ view = SETUP
  /\ countInput' = text
  /\ op' = ObserveOp("type")
  /\ UNCHANGED <<view, questions, activeQuestionId, config,
                 totalAllocatedTimeMs, remainingTimeMs, isGlobalPaused,
                 timerIntervalRef, liveIntervals, capturedActiveId,
                 lastTickRef, now, observed, pausedMs, everSkipped,
                 everActive, priorDirty, act, uncreditedTick, period,
                 scen7, scen8>>

\* Submitting the setup form: the constraint validation, then handleSubmit,
\* which calls onStart(num, config) or does nothing.
handleSubmit ==
  /\ view = SETUP
  /\ IF FormValid(countInput) /\ SubmitStarts(ParseInt(countInput))
     THEN \E t \in TrackedIdealInputs :
            handleStartSession(ParseInt(countInput).value, t)
     ELSE /\ op' = ObserveOp("rejected")
          /\ UNCHANGED <<progVars, now, observed, pausedMs, everSkipped,
                         everActive, priorDirty, act, uncreditedTick,
                         period, scen7, scen8>>

\* The interval callback.
Tick ==
  /\ liveIntervals > 0
  /\ now > lastTickRef
  /\ LET delta == MeasuredDelta(now, lastTickRef)
         qs == IF capturedActiveId # NULL
               THEN TickQuestions(questions, capturedActiveId, delta)
               ELSE questions
     IN  /\ lastTickRef' = now
         /\ remainingTimeMs' = TickRemaining(remainingTimeMs, delta)
         /\ questions' = qs
         /\ act' = ObserveAct(ActTick(act))
         /\ uncreditedTick' = ObserveCredit(uncreditedTick \/ qs = questions)
         /\ period' = ObservePeriod([period EXCEPT !.sum = @ + delta])
         /\ scen7' = Observe7(Scen7Tick(scen7, now - lastTickRef))
         /\ scen8' = Observe8(Scen8Tick(scen8, questions, qs))
  /\ op' = ObserveOp("tick")
  /\ UNCHANGED <<view, activeQuestionId, config, totalAllocatedTimeMs,
                 isGlobalPaused, timerIntervalRef, liveIntervals,
                 capturedActiveId, countInput, now, observed, pausedMs,
                 everSkipped, everActive, priorDirty>>

\* A button of the question overlay: updateQuestionStatus(id, newStatus).
updateQuestionStatus(id, newStatus) ==
  /\ view = TRACKER
  /\ id \in Ids
  /\ newStatus \in Offered(questions[id].status)
  /\ questions' = UpdateQuestions(questions, id, newStatus)
  /\ activeQuestionId' = UpdatedActiveId(questions, activeQuestionId, id, newStatus)
  /\ TimerEffect(view, isGlobalPaused,
                 UpdatedActiveId(questions, activeQuestionId, id, newStatus),
                 UpdatedLastTick(questions, lastTickRef, now, id, newStatus))
  /\ op' = ObserveOp("status")
  /\ everSkipped' = IF newStatus = SKIPPED THEN everSkipped \cup {id} ELSE everSkipped
  /\ everActive' = IF newStatus = ACTIVE THEN everActive \cup {id} ELSE everActive
  /\ act' = ObserveAct(
       LET qs == UpdateQuestions(questions, id, newStatus)
           aid == UpdatedActiveId(questions, activeQuestionId, id, newStatus)
       IN  ActStatus(act, newStatus, isGlobalPaused, now,
                     aid \in Ids /\ qs[aid].status = ACTIVE))
  /\ scen7' = Observe7(Scen7Status(scen7, id, questions[id].status, newStatus))
  /\ scen8' = Observe8(Scen8Status(scen8, id, questions[id].status, newStatus))
  /\ UNCHANGED <<view, config, totalAllocatedTimeMs, remainingTimeMs,
                 isGlobalPaused, countInput, now, observed, pausedMs,
                 priorDirty, uncreditedTick, period>>

\* updateQuestionStatus(id, newStatus) called as a function, with an
\* argument pair that no button of the overlay produces: an id that no
\* record has, or the id of a COMPLETED record, with any status.
updateQuestionStatusCall(id, newStatus) ==
  /\ view = TRACKER
  /\ IF id \in Ids THEN questions[id].status = COMPLETED ELSE TRUE
  /\ questions' = UpdateQuestions(questions, id, newStatus)
  /\ activeQuestionId' = UpdatedActiveId(questions, activeQuestionId, id, newStatus)
  /\ TimerEffect(view, isGlobalPaused,
                 UpdatedActiveId(questions, activeQuestionId, id, newStatus),
                 UpdatedLastTick(questions, lastTickRef, now, id, newStatus))
  /\ op' = ObserveOp(IF id \in Ids THEN "completed" ELSE "unknown")
  /\ everSkipped' = IF id \in Ids /\ newStatus = SKIPPED
                    THEN everSkipped \cup {id} ELSE everSkipped
  /\ everActive' = IF id \in Ids /\ newStatus = ACTIVE
                   THEN everActive \cup {id} ELSE everActive
  /\ UNCHANGED <<view, config, totalAllocatedTimeMs, remainingTimeMs,
                 isGlobalPaused, countInput, now, observed, pausedMs,
                 priorDirty, act, uncreditedTick, period,
                 scen7, scen8>>

\* variant: a global pause also pauses the ACTIVE records
onPauseDemoting ==
  /\ PauseOffered
  /\ isGlobalPaused' = TRUE
  /\ questions' = [i \in Ids |->
                     IF questions[i].status = ACTIVE
                     THEN [questions[i] EXCEPT !.status = PAUSED]
                     ELSE questions[i]]
  /\ TimerEffect(view, TRUE, activeQuestionId, lastTickRef)
  /\ op' = ObserveOp("pause")
  /\ act' = ObserveAct(ActPause(act))
  /\ scen7' = Observe7(Scen7Off)
  /\ scen8' = Observe8(Scen8Rest(scen8))
  /\ UNCHANGED <<view, activeQuestionId, config, totalAllocatedTimeMs,
                 remainingTimeMs, countInput, now, observed, pausedMs,
                 everSkipped, everActive, priorDirty, uncreditedTick,
                 period>>

\* GlobalTimerControls onPause: setIsGlobalPaused(true)
onPause ==
  /\ PauseOffered
  /\ isGlobalPaused' = TRUE
  /\ TimerEffect(view, TRUE, activeQuestionId, lastTickRef)
  /\ op' = ObserveOp("pause")
  /\ act' = ObserveAct(ActPause(act))
  /\ scen7' = Observe7(Scen7Off)
  /\ scen8' = Observe8(Scen8Rest(scen8))
  /\ UNCHANGED <<view, questions, activeQuestionId, config, totalAllocatedTimeMs,
                 remainingTimeMs, countInput, now, observed, pausedMs,
                 everSkipped, everActive, priorDirty, uncreditedTick,
                 period>>

\* GlobalTimerControls onResume: setIsGlobalPaused(false); lastTickRef = now
onResume ==
  /\ ResumeOffered
  /\ isGlobalPaused' = FALSE
  /\ TimerEffect(view, FALSE, activeQuestionId, now)
  /\ op' = ObserveOp("resume")
  /\ act' = ObserveAct(ActResume(act, now))
  /\ period' = ObservePeriod([from |-> now, sum |-> 0])
  /\ scen7' = Observe7(Scen7Off)
  /\ scen8' = Observe8(Scen8Rest(scen8))
  /\ UNCHANGED <<view, questions, activeQuestionId, config, totalAllocatedTimeMs,
                 remainingTimeMs, countInput, now, observed, pausedMs,
                 everSkipped, everActive, priorDirty, uncreditedTick>>

\* variant: finishing shows the setup view
handleFinishSessionToSetup ==
  /\ view = TRACKER
  /\ activeQuestionId' = NULL
  /\ isGlobalPaused' = TRUE
  /\ view' = SETUP
  /\ TimerEffect(SETUP, TRUE, NULL, lastTickRef)
  /\ op' = ObserveOp("finish")
  /\ act' = ObserveAct(ActPause(act))
  /\ scen7' = Observe7(Scen7Off)
  /\ scen8' = Observe8(Scen8Rest(scen8))
  /\ UNCHANGED <<questions, config, totalAllocatedTimeMs, remainingTimeMs,
                 countInput, now, observed, pausedMs, everSkipped, everActive,
                 priorDirty, uncreditedTick, period>>

\* TrackerGrid "Done & View Analytics"
handleFinishSession ==
  /\ view = TRACKER
  /\ activeQuestionId' = NULL
  /\ isGlobalPaused' = TRUE
  /\ view' = ANALYTICS
  /\ TimerEffect(ANALYTICS, TRUE, NULL, lastTickRef)
  /\ op' = ObserveOp("finish")
  /\ act' = ObserveAct(ActPause(act))
  /\ scen7' = Observe7(Scen7Off)
  /\ scen8' = Observe8(Scen8Rest(scen8))
  /\ UNCHANGED <<questions, config, totalAllocatedTimeMs, remainingTimeMs,
                 countInput, now, observed, pausedMs, everSkipped, everActive,
                 priorDirty, uncreditedTick, period>>

\* variant: restarting leaves the remaining time as the session left it
handleRestartKeepingRemaining ==
  /\ view = ANALYTICS
  /\ view' = SETUP
  /\ questions' = <<>>
  /\ activeQuestionId' = NULL
  /\ remainingTimeMs' = remainingTimeMs
  /\ isGlobalPaused' = FALSE
  /\ TimerEffect(SETUP, FALSE, NULL, lastTickRef)
  /\ countInput' = DEFAULT_COUNT_INPUT
  /\ op' = ObserveOp("restart")
  /\ pausedMs' = 0
  /\ everSkipped' = {}
  /\ everActive' = {}
  /\ priorDirty' = ObservePrior(priorDirty \/ SessionDirty)
  /\ act' = ActNone
  /\ uncreditedTick' = FALSE
  /\ period' = PeriodNone
  /\ scen7' = Observe7(Scen7Off)
  /\ scen8' = Scen8Idle
  /\ UNCHANGED <<config, totalAllocatedTimeMs, now, observed>>

\* AnalyticsDashboard onRestart; SetupScreen is mounted again with its
\* initial count text
handleRestart ==
  /\ view = ANALYTICS
  /\ view' = SETUP
  /\ questions' = <<>>
  /\ activeQuestionId' = NULL
  /\ remainingTimeMs' = 0
  /\ isGlobalPaused' = FALSE
  /\ TimerEffect(SETUP, FALSE, NULL, lastTickRef)
  /\ countInput' = DEFAULT_COUNT_INPUT
  /\ op' = ObserveOp("restart")
  /\ pausedMs' = 0
  /\ everSkipped' = {}
  /\ everActive' = {}
  /\ priorDirty' = ObservePrior(priorDirty \/ SessionDirty)
  /\ act' = ActNone
  /\ uncreditedTick' = FALSE
  /\ period' = PeriodNone
  /\ scen7' = Observe7(Scen7Off)
  /\ scen8' = Scen8Idle
  /\ UNCHANGED <<config, totalAllocatedTimeMs, now, observed>>

Next ==
  \/ \E d \in WallSteps : Advance(d)
  \/ \E count \in 1..MaxCount, t \in TrackedIdealInputs :
       handleStartSession(count, t)
  \/ Tick
  \/ \E id \in Ids, s \in QuestionStatus : updateQuestionStatus(id, s)
  \/ onPause
  \/ onResume
  \/ handleFinishSession
  \/ handleRestart

Spec == Init /\ [][Next]_vars

\* the same program with the paused wall time recorded
SpecPause == InitPause /\ [][Next]_vars

\* the same program with the start/tick/complete scenario recorded
SpecScenario == InitScenario /\ [][Next]_vars

\* the same program with the accrue/leave/resume/complete scenario recorded
SpecResumption == InitResumption /\ [][Next]_vars

\* Session start over a wider range of question counts; the records are
\* left untouched between start and finish.
NextStart ==
  \/ \E d \in WallSteps : Advance(d)
  \/ \E count \in 1..MaxStartCount, t \in IdealInputs : handleStartSession(count, t)
  \/ Tick
  \/ handleFinishSession
  \/ handleRestart

SpecStart == Init /\ [][NextStart]_vars

\* Sessions started through the setup form, whatever its count field holds;
\* the records are left untouched between start and finish.
NextSetup ==
  \/ \E d \in WallSteps : Advance(d)
  \/ \E text \in CountInputs : setCount(text)
  \/ handleSubmit
  \/ Tick
  \/ handleFinishSession
  \/ handleRestart

SpecSetup == Init /\ [][NextSetup]_vars

\* the same program with the earlier sessions' leftovers recorded
SpecSessions == InitSessions /\ [][Next]_vars

\* the same program with the latest activation recorded
SpecActivation == InitActivation /\ [][Next]_vars

\* the same program with the uncredited ticks recorded
SpecCredit == InitCredit /\ [][Next]_vars

\* the same program with the running periods of the clock recorded
SpecPeriod == InitPeriod /\ [][Next]_vars

\* an id that no record has: one past the last record
UnknownIds == {Len(questions) + 1}
\* the ids of the records that are COMPLETED
CompletedIds == {i \in Ids : questions[i].status = COMPLETED}

\* The program together with a caller of updateQuestionStatus that passes
\* ids of no record.
NextUnknown ==
  \/ \E d \in WallSteps : Advance(d)
  \/ \E count \in 1..MaxCount, t \in TrackedIdealInputs :
       handleStartSession(count, t)
  \/ Tick
  \/ \E id \in Ids, s \in QuestionStatus : updateQuestionStatus(id, s)
  \/ \E id \in UnknownIds, s \in QuestionStatus : updateQuestionStatusCall(id, s)
  \/ onPause
  \/ onResume
  \/ handleFinishSession
  \/ handleRestart

SpecUnknown == InitCalls /\ [][NextUnknown]_vars

\* The program together with a caller of updateQuestionStatus that targets
\* COMPLETED records.
NextCompleted ==
  \/ \E d \in WallSteps : Advance(d)
  \/ \E count \in 1..MaxCount, t \in TrackedIdealInputs :
       handleStartSession(count, t)
  \/ Tick
  \/ \E id \in Ids, s \in QuestionStatus : updateQuestionStatus(id, s)
  \/ \E id \in CompletedIds, s \in QuestionStatus : updateQuestionStatusCall(id, s)
  \/ onPause
  \/ onResume
  \/ handleFinishSession
  \/ handleRestart

SpecCompleted == InitCalls /\ [][NextCompleted]_vars

\* Sessions started with an ideal time of 0 minutes: the budget is 0 and
\* every tick is in overtime.
NextOvertime ==
  \/ \E d \in WallSteps : Advance(d)
  \/ \E count \in 1..MaxCount, t \in OvertimeIdealInputs :
       handleStartSession(count, t)
  \/ Tick
  \/ \E id \in Ids, s \in QuestionStatus : updateQuestionStatus(id, s)
  \/ onPause
  \/ onResume
  \/ handleFinishSession
  \/ handleRestart

SpecOvertime == InitOvertime /\ [][NextOvertime]_vars

\* The user keeps to one question at a time: Start and Resume are pressed
\* only while no record is ACTIVE.
NextDisciplined ==
  \/ \E d \in WallSteps : Advance(d)
  \/ \E count \in 1..MaxCount, t \in TrackedIdealInputs :
       handleStartSession(count, t)
  \/ Tick
  \/ \E id \in Ids, s \in QuestionStatus :
       /\ s = ACTIVE => \A i \in Ids : questions[i].status # ACTIVE
       /\ updateQuestionStatus(id, s)
  \/ onPause
  \/ onResume
  \/ handleFinishSession
  \/ handleRestart

SpecDisciplined == Init /\ [][NextDisciplined]_vars

\* ---------------------------------------------------------------- claims

SameSession == op' \notin {"start", "restart"}
ActiveIds == {i \in Ids : questions[i].status = ACTIVE}

\* C1: in every reachable state of a session at most one question record
\* has status ACTIVE.
C1_AtMostOneActive == Cardinality(ActiveIds) <= 1

\* C2: a tick with measured delta D lowers remainingTimeMs by exactly D,
\* raises by exactly D the timeSpentMs of the record that activeQuestionId
\* references if that record is ACTIVE, and changes no other timeSpentMs,
\* no status and no wasSkipped.
C2_TickEffect ==
  [][op' = "tick" =>
       LET D == now - lastTickRef
       IN  /\ remainingTimeMs' = remainingTimeMs - D
           /\ Len(questions') = Len(questions)
           /\ \A i \in Ids :
                /\ questions'[i].id = questions[i].id
                /\ questions'[i].status = questions[i].status
                /\ questions'[i].wasSkipped = questions[i].wasSkipped
                /\ questions'[i].timeSpentMs =
                     IF questions[i].id = activeQuestionId
                        /\ questions[i].status = ACTIVE
                     THEN questions[i].timeSpentMs + D
                     ELSE questions[i].timeSpentMs]_vars

\* a tick has credited the linked ACTIVE record and not a second ACTIVE one
C2_Witness ==
  /\ op = "tick"
  /\ \E i, j \in Ids :
       /\ i # j
       /\ activeQuestionId = i
       /\ questions[i].status = ACTIVE /\ questions[i].timeSpentMs > 0
       /\ questions[j].status = ACTIVE /\ questions[j].timeSpentMs = 0

\* C3: within a session wasSkipped never goes from true to false, and it is
\* true only for records that have had status SKIPPED in this session.
C3_WasSkippedMonotonic ==
  /\ [](\A i \in Ids : questions[i].wasSkipped => i \in everSkipped)
  /\ [][SameSession =>
          \A i \in Ids : questions[i].wasSkipped =>
             i <= Len(questions') /\ questions'[i].wasSkipped]_vars

\* a record skipped, resumed and completed still carries the flag
C3_Witness ==
  \E i \in Ids : questions[i].status = COMPLETED /\ questions[i].wasSkipped

C6_StartState ==
  op = "start" =>
    /\ \A i \in Ids :
         questions[i] = [id |-> i, status |-> NOT_STARTED,
                         timeSpentMs |-> 0, wasSkipped |-> FALSE]
    /\ totalAllocatedTimeMs =
         Len(questions) * config.idealTimePerQuestionMin * 6000
    /\ remainingTimeMs = totalAllocatedTimeMs
    /\ ~isGlobalPaused

\* C7: fresh session, one record NOT_STARTED -> ACTIVE, then only ticks with
\* deltas summing to T, then COMPLETED: the record is COMPLETED with
\* timeSpentMs = T and wasSkipped false, remainingTimeMs is
\* totalAllocatedTimeMs - T and every other record is untouched.
C7_StartTickComplete ==
  scen7.phase = "done" =>
    /\ questions[scen7.id].status = COMPLETED
    /\ questions[scen7.id].timeSpentMs = scen7.T
    /\ ~questions[scen7.id].wasSkipped
    /\ remainingTimeMs = totalAllocatedTimeMs - scen7.T
    /\ \A j \in Ids \ {scen7.id} :
         questions[j].status = NOT_STARTED /\ questions[j].timeSpentMs = 0

\* the scenario has run with two ticks next to an untouched record
C7_Witness ==
  scen7.phase = "done" /\ scen7.T = 2 * TICK_PERIOD_MS /\ Len(questions) = 2

\* C8: accrual is cumulative: after ACTIVE (accrue T1) -> SKIPPED or PAUSED
\* -> ACTIVE (accrue T2) -> COMPLETED the record has timeSpentMs = T1 + T2,
\* the value is T1 all the while it is SKIPPED or PAUSED and on resume, and a
\* record that went through SKIPPED ends with wasSkipped true.
C8_CumulativeAccrual ==
  /\ scen8.phase = "a1" => questions[scen8.id].timeSpentMs = scen8.t1
  /\ scen8.phase = "mid" =>
       /\ questions[scen8.id].timeSpentMs = scen8.t1
       /\ scen8.t2 = 0
       /\ scen8.via = SKIPPED => questions[scen8.id].wasSkipped
  /\ scen8.phase \in {"a2", "done"} =>
       /\ questions[scen8.id].timeSpentMs = scen8.t1 + scen8.t2
       /\ scen8.via = SKIPPED => questions[scen8.id].wasSkipped
  /\ scen8.phase = "done" => questions[scen8.id].status = COMPLETED

\* the skip/resume cycle has completed with time accrued on both sides
C8_Witness ==
  /\ scen8.phase = "done" /\ scen8.via = SKIPPED
  /\ scen8.t1 > 0 /\ scen8.t2 > 0

\* C9: timeSpentMs is never negative, never decreases within a session, and
\* a tick leaves it unchanged for every record that is not ACTIVE.
C9_TimeSpentMonotonic ==
  /\ [](\A i \in Ids : questions[i].timeSpentMs >= 0)
  /\ [][SameSession =>
          /\ Len(questions') = Len(questions)
          /\ \A i \in Ids :
               /\ questions'[i].timeSpentMs >= questions[i].timeSpentMs
               /\ (op' = "tick" /\ questions[i].status # ACTIVE) =>
                    questions'[i].timeSpentMs = questions[i].timeSpentMs]_vars

\* a tick has passed over a record that is PAUSED and still linked
C9_Witness ==
  /\ op = "tick"
  /\ \E i \in Ids : /\ questions[i].status = PAUSED
                    /\ activeQuestionId = i
                    /\ remainingTimeMs < totalAllocatedTimeMs

\* C10: once a record is COMPLETED, no offered action, tick, global pause or
\* resume, or finish changes it for the rest of the session.
C10_CompletedTerminal ==
  [][SameSession =>
       \A i \in Ids : questions[i].status = COMPLETED =>
          i <= Len(questions') /\ questions'[i] = questions[i]]_vars

\* a tick has credited another record after one was completed
C10_Witness ==
  /\ op = "tick"
  /\ \E i, j \in Ids : /\ questions[i].status = COMPLETED
                       /\ questions[j].status = ACTIVE
                       /\ questions[j].timeSpentMs > 0

\* C11: a status-change request whose id matches no record changes nothing:
\* the records, activeQuestionId, remainingTimeMs, isGlobalPaused and the
\* installed interval with its last tick time stay as they are, whatever
\* status is requested.
C11_UnknownIdNoOp == [][op' = "unknown" => UNCHANGED progVars]_vars

\* such a request was made while a linked ACTIVE record was accruing
C11_Witness ==
  /\ op = "unknown" /\ view = TRACKER /\ ~isGlobalPaused /\ liveIntervals = 1
  /\ \E i \in Ids : /\ questions[i].status = ACTIVE
                    /\ activeQuestionId = i
                    /\ questions[i].timeSpentMs > 0

C13_FinishFreezes ==
  [][/\ op' = "finish" =>
          /\ isGlobalPaused' /\ view' = ANALYTICS
          /\ questions' = questions
          /\ remainingTimeMs' = remainingTimeMs
     /\ (view = ANALYTICS /\ op' # "restart") =>
          /\ questions' = questions
          /\ remainingTimeMs' = remainingTimeMs]_vars

\* time has passed after a finish that left one record ACTIVE and another
\* PAUSED
C13_Witness ==
  /\ view = ANALYTICS /\ op = "advance" /\ isGlobalPaused
  /\ \E i, j \in Ids : /\ questions[i].status = ACTIVE
                       /\ questions[j].status = PAUSED
                       /\ questions[j].timeSpentMs > 0

C15_OvertimeOrdinary ==
  /\ []((view = TRACKER /\ ~isGlobalPaused /\ remainingTimeMs <= 0) =>
           liveIntervals = 1)
  /\ [][(view = TRACKER /\ remainingTimeMs <= 0) =>
          /\ op' # "finish" => view' = TRACKER
          /\ Len(questions') = Len(questions)
          /\ op' # "status" =>
               \A i \in Ids : questions'[i].status = questions[i].status
          /\ op' = "tick" =>
               /\ remainingTimeMs' = remainingTimeMs - (now - lastTickRef)
               /\ \A i \in Ids :
                    questions'[i].timeSpentMs =
                      IF activeQuestionId = i /\ questions[i].status = ACTIVE
                      THEN questions[i].timeSpentMs + (now - lastTickRef)
                      ELSE questions[i].timeSpentMs]_vars

\* two ticks have run below zero and credited the ACTIVE record
C15_Witness ==
  /\ op = "tick" /\ view = TRACKER
  /\ remainingTimeMs = 0 - 2 * TICK_PERIOD_MS
  /\ \E i \in Ids : /\ questions[i].status = ACTIVE
                    /\ questions[i].timeSpentMs = 2 * TICK_PERIOD_MS

\* C16: whatever sessions came before, the state right after a start is
\* that of a first session with the same count and config: fresh records,
\* activeQuestionId null, isGlobalPaused false, the budget computed anew and
\* remainingTimeMs equal to it, one interval with nothing captured.
C16_NoCarryOver ==
  op = "start" =>
    /\ view = TRACKER
    /\ questions = NewQuestions(Len(questions))
    /\ activeQuestionId = NULL
    /\ ~isGlobalPaused
    /\ totalAllocatedTimeMs =
         AllocatedMs(Len(questions), config.idealTimePerQuestionMin)
    /\ remainingTimeMs = totalAllocatedTimeMs
    /\ liveIntervals = 1 /\ capturedActiveId = NULL /\ lastTickRef = now

\* a session has started after one that ended with a skipped, timed record
C16_Witness == op = "start" /\ priorDirty

\* C17: a change of record id to SKIPPED or COMPLETED sets activeQuestionId
\* to null when it was id and leaves it unchanged when it was not.
C17_ClearsOnlyOwnLink ==
  [][op' = "status" =>
       \A i \in Ids :
         (/\ questions'[i].status # questions[i].status
          /\ questions'[i].status \in {SKIPPED, COMPLETED}) =>
            activeQuestionId' =
              IF activeQuestionId = i THEN NULL ELSE activeQuestionId]_vars

\* C18: while the user never has two records ACTIVE at once, whenever
\* exactly one record is ACTIVE in the tracker activeQuestionId is its id.
C18_ActiveIsLinked ==
  (view = TRACKER /\ Cardinality(ActiveIds) = 1) => activeQuestionId \in ActiveIds

\* C19: a status-change request for a COMPLETED record changes no record
\* and not activeQuestionId, whatever status is requested.
C19_CompletedCallNoOp ==
  [][op' = "completed" =>
       /\ questions' = questions
       /\ activeQuestionId' = activeQuestionId]_vars

\* C20: a tick that finds activeQuestionId referencing a record that is not
\* ACTIVE changes no timeSpentMs and still lowers remainingTimeMs by its
\* delta.
C20_StaleLinkTick ==
  [][(/\ op' = "tick"
      /\ activeQuestionId \in Ids
      /\ questions[activeQuestionId].status # ACTIVE) =>
       /\ remainingTimeMs' = remainingTimeMs - (now - lastTickRef)
       /\ Len(questions') = Len(questions)
       /\ \A i \in Ids : questions'[i].timeSpentMs = questions[i].timeSpentMs]_vars

\* one tick has used budget while the only touched record was PAUSED,
\* linked and at zero
C20_Witness ==
  /\ op = "tick"
  /\ remainingTimeMs = totalAllocatedTimeMs - TICK_PERIOD_MS
  /\ \E i \in Ids : questions[i].status = PAUSED /\ activeQuestionId = i
  /\ \A i \in Ids : questions[i].timeSpentMs = 0

\* C21: a status transition changes the status of one record and nothing
\* else of the registry and the budget: the target keeps its id and its
\* timeSpentMs, its wasSkipped becomes true if the new status is SKIPPED and
\* is otherwise kept, every other record is unchanged, and remainingTimeMs
\* and totalAllocatedTimeMs are unchanged.
C21_StatusChangeFrame ==
  [][op' = "status" =>
       /\ remainingTimeMs' = remainingTimeMs
       /\ totalAllocatedTimeMs' = totalAllocatedTimeMs
       /\ Len(questions') = Len(questions)
       /\ \E t \in Ids :
            /\ \A j \in Ids \ {t} : questions'[j] = questions[j]
            /\ questions'[t].id = questions[t].id
            /\ questions'[t].status # questions[t].status
            /\ questions'[t].timeSpentMs = questions[t].timeSpentMs
            /\ questions'[t].wasSkipped =
                 (questions[t].wasSkipped \/ questions'[t].status = SKIPPED)]_vars

\* a record was started next to an ACTIVE record that holds time, and that
\* record is still ACTIVE
C21_Witness ==
  /\ op = "status"
  /\ \E i, j \in Ids :
       /\ i # j
       /\ activeQuestionId = i
       /\ questions[i].status = ACTIVE /\ questions[i].timeSpentMs = 0
       /\ questions[j].status = ACTIVE /\ questions[j].timeSpentMs > 0

\* C22: a transition to ACTIVE sets activeQuestionId to the record's id and
\* lastTickRef to the instant of the activation, and the first tick after
\* it credits a record with at most the wall time elapsed since that
\* instant, never with time from before the activation.
C22_ActivationResync ==
  /\ [][\A i \in Ids :
          (/\ Len(questions') = Len(questions)
           /\ questions[i].status # ACTIVE
           /\ questions'[i].status = ACTIVE) =>
             /\ activeQuestionId' = i
             /\ lastTickRef' = now']_vars
  /\ [][(act.phase \in {"running", "resumed"} /\ act'.phase \in ActTicked) =>
          \A i \in Ids :
            questions'[i].timeSpentMs - questions[i].timeSpentMs
              <= now - act.from]_vars

\* unticked time had passed when a record was activated, and the first tick
\* after it has credited the record with exactly the time since then
C22_Witness ==
  /\ act.phase = "ticked" /\ act.from > 0
  /\ lastTickRef = now /\ now > act.from
  /\ totalAllocatedTimeMs - remainingTimeMs = now - act.from
  /\ \E i \in Ids : /\ questions[i].status = ACTIVE
                    /\ activeQuestionId = i
                    /\ questions[i].timeSpentMs = now - act.from

\* C23: within a running period of the clock (from the session start or a
\* global resume) the deltas of the ticks add up to the wall time elapsed
\* from the beginning of the period to the latest tick, whatever status
\* changes were made in between.
C23_DeltasPartitionTime ==
  op = "tick" => period.sum = now - period.from

RECURSIVE SumSpent(_)
SumSpent(qs) ==
  IF qs = <<>> THEN 0 ELSE Head(qs).timeSpentMs + SumSpent(Tail(qs))

\* C24: in every state of a session the timeSpentMs of all records add up to
\* at most the budget consumed, totalAllocatedTimeMs - remainingTimeMs, and
\* to exactly that as long as every tick has credited a record.
C24_BudgetAndRecordsAgree ==
  view # SETUP =>
    /\ SumSpent(questions) <= totalAllocatedTimeMs - remainingTimeMs
    /\ ~uncreditedTick =>
         SumSpent(questions) = totalAllocatedTimeMs - remainingTimeMs

\* two ticks have credited two different records and the sums agree
C24_Witness ==
  /\ ~uncreditedTick
  /\ totalAllocatedTimeMs - remainingTimeMs = 2 * TICK_PERIOD_MS
  /\ SumSpent(questions) = 2 * TICK_PERIOD_MS
  /\ \E i, j \in Ids : /\ i # j
                       /\ questions[i].timeSpentMs > 0
                       /\ questions[j].timeSpentMs > 0

\* C25: under the offered actions a NOT_STARTED record changes status only
\* to ACTIVE, so every record that is PAUSED, SKIPPED or COMPLETED has been
\* ACTIVE earlier in the session, and every NOT_STARTED record has
\* timeSpentMs 0 and wasSkipped false.
C25_OnlyStartLeavesNotStarted ==
  /\ [](\A i \in Ids :
          /\ questions[i].status # NOT_STARTED => i \in everActive
          /\ questions[i].status = NOT_STARTED =>
               questions[i].timeSpentMs = 0 /\ ~questions[i].wasSkipped)
  /\ [][SameSession =>
          \A i \in Ids : questions[i].status = NOT_STARTED =>
             /\ i <= Len(questions')
             /\ questions'[i].status \in {NOT_STARTED, ACTIVE}]_vars

\* after ticks, one record has been skipped while another is untouched
C25_Witness ==
  /\ remainingTimeMs < totalAllocatedTimeMs
  /\ \E i, j \in Ids : /\ questions[i].status = SKIPPED /\ i \in everActive
                       /\ questions[i].timeSpentMs > 0
                       /\ questions[j].status = NOT_STARTED

C28_RestartState ==
  /\ [](view = SETUP => liveIntervals = 0 /\ ~timerIntervalRef)
  /\ [][op' = "restart" =>
          /\ view' = SETUP
          /\ questions' = <<>>
          /\ activeQuestionId' = NULL
          /\ remainingTimeMs' = 0
          /\ ~isGlobalPaused'
          /\ config' = config
          /\ liveIntervals' = 0]_vars

\* a session configured with a non-default ideal time was restarted after
\* ticks had used some of its budget
C28_Witness ==
  /\ op = "restart" /\ view = SETUP
  /\ config.idealTimePerQuestionMin # DEFAULT_IDEAL_TENTHS
  /\ lastTickRef > 0

\* C29: the view changes only from SETUP to TRACKER by a session start, from
\* TRACKER to ANALYTICS by finish and from ANALYTICS to SETUP by restart;
\* status changes, ticks, global pause and resume and the passing of time
\* never change it.
C29_ViewCycle ==
  [][/\ view' # view =>
          \/ view = SETUP /\ view' = TRACKER /\ op' = "start"
          \/ view = TRACKER /\ view' = ANALYTICS /\ op' = "finish"
          \/ view = ANALYTICS /\ view' = SETUP /\ op' = "restart"
     /\ op' = "start" => view = SETUP /\ view' = TRACKER
     /\ op' = "finish" => view = TRACKER /\ view' = ANALYTICS
     /\ op' = "restart" => view = ANALYTICS /\ view' = SETUP
     /\ op' \in {"status", "tick", "pause", "resume", "advance"} =>
          view' = view]_vars

\* the cycle has been closed after a session with status changes and ticks
C29_Witness ==
  /\ view = SETUP /\ op = "restart"
  /\ lastTickRef > 0
  /\ totalAllocatedTimeMs > 0

\* C30: on the analytics view the four counts of the status breakdown are
\* non-negative and add up to the number of records, and the incomplete
\* count is the number of records that are NOT_STARTED, ACTIVE or PAUSED.
C30_StatusCountsPartition ==
  view = ANALYTICS =>
    /\ greenCount(questions) >= 0 /\ orangeCount(questions) >= 0
    /\ blueCount(questions) >= 0 /\ grayCount(questions) >= 0
    /\ greenCount(questions) + orangeCount(questions) + blueCount(questions)
         + grayCount(questions) = Len(questions)
    /\ grayCount(questions) =
         Cardinality({i \in Ids :
                        questions[i].status \in {NOT_STARTED, ACTIVE, PAUSED}})

\* a session ended with one record done after a skip and one left ACTIVE
C30_Witness ==
  /\ view = ANALYTICS
  /\ orangeCount(questions) = 1 /\ grayCount(questions) = 1
  /\ \E i \in Ids : questions[i].status = ACTIVE /\ questions[i].timeSpentMs > 0

====
